---- MODULE Spec2Model ----
(***************************************************************************)
(* Model of src/flask/app.py: the module-level RateLimiter (a dict from    *)
(* client address to an integer counter plus one limit attribute) and the  *)
(* Flask routes that use it.                                               *)
(*                                                                         *)
(* Spec       requests are handled one at a time: each handler is one      *)
(*            atomic action.                                               *)
(* TimedSpec  checks and limit updates, one at a time, while a wall clock  *)
(*            advances between them.                                       *)
(* ThreadSpec handlers of "/" run in threads and interleave at the steps   *)
(*            of RateLimiter.allow (membership test, insert, the two loads *)
(*            of the comparison, read and write of the counter) and with   *)
(*            limit updates.                                               *)
(*                                                                         *)
(* POST /rate_limit stores whatever JSON value arrives as "limit" (lines    *)
(* 37-39 check nothing).  A JSON value is a record [kind, num]: the        *)
(* integer num, the float num + 1/2, a string or null.  Line 13 compares   *)
(* a count with an integer or a float and raises TypeError on a string or  *)
(* on null (a JSON list or object raises the same way).                    *)
(*                                                                         *)
(* The clock and the variables windowStart, granted, cappedAt, configured, *)
(* admitted and base record the history of the run; the code reads none    *)
(* of them.                                                                *)
(***************************************************************************)
EXTENDS Integers, FiniteSets, Sequences, TLC

\* ---------------------------------------------------------------- bounds
MaxLimit == 2
NegLimits == 1
MaxTime == 2
Window == 2
NumThreads == 2

\* RateLimiter(limit=10), src/flask/app.py line 21
DefaultLimit == 10

IPs == {"10.0.0.1", "10.0.0.2"}

\* JSON values: the integer n, the float n + 1/2, the string "5", null
JInt(n) == [kind |-> "int", num |-> n]
JHalf(n) == [kind |-> "float", num |-> n]
JStr == [kind |-> "str", num |-> 0]
JNull == [kind |-> "null", num |-> 0]
\* no JSON value (a response that carries no limit, a thread that loaded none)
NoVal == [kind |-> "", num |-> 0]

\* the values a POST /rate_limit arrives with as "limit": integers around 0,
\* the float 1.5, a string and null
LimitInputs == {JInt(n) : n \in (0 - NegLimits)..MaxLimit} \cup {JHalf(1), JStr, JNull}
HeaderNames == {"X-Real-IP", "X-Forwarded-For", "Host", "User-Agent"}
Threads == 1..NumThreads
\* the header sets a request to /info arrives with: all four, or one missing
HeaderInputs == {HeaderNames} \cup {HeaderNames \ {h} : h \in HeaderNames}

VARIABLES
    limit,        \* rate_limiter.limit
    counts,       \* rate_limiter.counts: a dict, here a function on the keys present
    resp,         \* the response to the latest request
    now,          \* wall clock
    windowStart,  \* per key: start of the window its latest check falls in
    granted,      \* per key: checks answered True in that window under the present limit
    cappedAt,     \* per key answered False under the present limit: when that first happened
    configured,   \* whether a POST /rate_limit has stored a limit, and which
    admitted,     \* per key: checks answered True since the limiter was constructed
    base,         \* per key: the count it stood at when the present limit was stored
    pc,           \* per thread: position inside index()/allow()
    tip,          \* per thread: request.remote_addr
    tlimit,       \* per thread, between lines 13 and 15: the self.limit line 13 loaded
    tmp           \* per thread: the value of self.counts[ip] loaded on line 13 or 14

seqvars == <<limit, counts, resp, now, windowStart, granted, cappedAt, configured,
             admitted, base>>
thrvars == <<pc, tip, tlimit, tmp>>
vars == <<limit, counts, resp, now, windowStart, granted, cappedAt, configured,
          admitted, base, pc, tip, tlimit, tmp>>

\* ---------------------------------------------------------------- data
NoResp == [route |-> "", method |-> "", ip |-> "", status |-> 0, body |-> "", val |-> NoVal]
Unset == [set |-> FALSE, val |-> NoVal]

\* d[k] = v on a dict
Put(d, k, v) == [x \in (DOMAIN d) \cup {k} |-> IF x = k THEN v ELSE d[x]]

\* the count a key stands at: its entry, 0 when it has none yet
CountOf(k) == IF k \in DOMAIN counts THEN counts[k] ELSE 0

\* ---------------------------------------------------------------- RateLimiter
\* whether Python orders an int and the value v: with a string or None the
\* operator < raises TypeError
Comparable(v) == v.kind \in {"int", "float"}

\* c < v and c <= v for an int c and a number v (c < n + 1/2 exactly when c <= n)
Less(c, v) == IF v.kind = "int" THEN c < v.num ELSE c <= v.num
LessEq(c, v) == c <= v.num

\* a limiter that compares with <= (admits one request too many)
AllowOffByOne(cs, lim, ip) ==
    LET c1 == IF ip \notin DOMAIN cs THEN Put(cs, ip, 0) ELSE cs
    IN  IF ~Comparable(lim)
        THEN [ret |-> FALSE, raised |-> TRUE, counts |-> c1]
        ELSE IF LessEq(c1[ip], lim)
        THEN [ret |-> TRUE, raised |-> FALSE, counts |-> Put(c1, ip, c1[ip] + 1)]
        ELSE [ret |-> FALSE, raised |-> FALSE, counts |-> c1]

\* a limiter that keeps one counter for all clients
AllowSharedCounter(cs, lim, ip) ==
    LET c1 == IF ip \notin DOMAIN cs THEN Put(cs, ip, 0) ELSE cs
    IN  IF ~Comparable(lim)
        THEN [ret |-> FALSE, raised |-> TRUE, counts |-> c1]
        ELSE IF Less(c1[ip], lim)
        THEN [ret |-> TRUE, raised |-> FALSE, counts |-> [x \in DOMAIN c1 |-> c1[x] + 1]]
        ELSE [ret |-> FALSE, raised |-> FALSE, counts |-> c1]

\* a limiter that clears the counter of a client it turns away
AllowResetOnDeny(cs, lim, ip) ==
    LET c1 == IF ip \notin DOMAIN cs THEN Put(cs, ip, 0) ELSE cs
    IN  IF ~Comparable(lim)
        THEN [ret |-> FALSE, raised |-> TRUE, counts |-> c1]
        ELSE IF Less(c1[ip], lim)
        THEN [ret |-> TRUE, raised |-> FALSE, counts |-> Put(c1, ip, c1[ip] + 1)]
        ELSE [ret |-> FALSE, raised |-> FALSE, counts |-> Put(c1, ip, 0)]

\* a limiter that also counts the requests it turns away
AllowCountsDenied(cs, lim, ip) ==
    LET c1 == IF ip \notin DOMAIN cs THEN Put(cs, ip, 0) ELSE cs
    IN  IF ~Comparable(lim)
        THEN [ret |-> FALSE, raised |-> TRUE, counts |-> c1]
        ELSE IF Less(c1[ip], lim)
        THEN [ret |-> TRUE, raised |-> FALSE, counts |-> Put(c1, ip, c1[ip] + 1)]
        ELSE [ret |-> FALSE, raised |-> FALSE, counts |-> Put(c1, ip, c1[ip] + 1)]

\* RateLimiter.allow run to completion on counts cs with limit lim: the value
\* returned (or that line 13 raised TypeError) and the dict afterwards
Allow(cs, lim, ip) ==
    LET c1 == IF ip \notin DOMAIN cs THEN Put(cs, ip, 0) ELSE cs
    IN  IF ~Comparable(lim)
        THEN [ret |-> FALSE, raised |-> TRUE, counts |-> c1]
        ELSE IF Less(c1[ip], lim)
        THEN [ret |-> TRUE, raised |-> FALSE, counts |-> Put(c1, ip, c1[ip] + 1)]
        ELSE [ret |-> FALSE, raised |-> FALSE, counts |-> c1]

\* ---------------------------------------------------------------- history
\* a check of ip at the present time opens a window when ip has none or its
\* window is over
Expired(ip) == ip \notin DOMAIN windowStart \/ now - windowStart[ip] >= Window

Observe(ip, ret) ==
    /\ windowStart' = IF Expired(ip) THEN Put(windowStart, ip, now) ELSE windowStart
    /\ granted' = [granted EXCEPT ![ip] =
                      (IF Expired(ip) THEN 0 ELSE @) + (IF ret THEN 1 ELSE 0)]
    /\ cappedAt' = IF ret \/ ip \in DOMAIN cappedAt THEN cappedAt ELSE Put(cappedAt, ip, now)

\* one more answer True for ip, or none
Admit(ip, ret) ==
    admitted' = [admitted EXCEPT ![ip] = @ + (IF ret THEN 1 ELSE 0)]

\* ---------------------------------------------------------------- responses
\* an index() that drops the status code of line 28
IndexResponseNoStatus(ip, ret) ==
    IF ~ret
    THEN [route |-> "/", method |-> "GET", ip |-> ip, status |-> 200,
          body |-> "error: Too many requests", val |-> NoVal]
    ELSE [route |-> "/", method |-> "GET", ip |-> ip, status |-> 200,
          body |-> "message: Hello, world!", val |-> NoVal]

\* index(), lines 27-30: the response for the value allow returned
IndexResponse(ip, ret) ==
    IF ~ret
    THEN [route |-> "/", method |-> "GET", ip |-> ip, status |-> 429,
          body |-> "error: Too many requests", val |-> NoVal]
    ELSE [route |-> "/", method |-> "GET", ip |-> ip, status |-> 200,
          body |-> "message: Hello, world!", val |-> NoVal]

\* index() when allow raised: the TypeError of line 13 leaves the view and the
\* request is answered 500
IndexError(ip) ==
    [route |-> "/", method |-> "GET", ip |-> ip, status |-> 500,
     body |-> "TypeError", val |-> NoVal]

\* ---------------------------------------------------------------- handlers
\* GET /
Index(ip) ==
    LET r == Allow(counts, limit, ip)
    IN  /\ counts' = r.counts
        /\ IF r.raised
           THEN /\ resp' = IndexError(ip)
                /\ UNCHANGED <<windowStart, granted, cappedAt, admitted>>
           ELSE /\ resp' = IndexResponse(ip, r.ret)
                /\ Observe(ip, r.ret)
                /\ Admit(ip, r.ret)
        /\ UNCHANGED <<limit, now, configured, base>>
        /\ UNCHANGED thrvars

\* a GET /rate_limit put behind the limiter like "/"
RateLimitGetGated ==
    \E ip \in IPs :
        LET r == Allow(counts, limit, ip)
        IN  /\ counts' = r.counts
            /\ resp' = IF r.ret \/ r.raised
                       THEN [route |-> "/rate_limit", method |-> "GET", ip |-> "",
                             status |-> 200, body |-> "limit", val |-> limit]
                       ELSE [route |-> "/rate_limit", method |-> "GET", ip |-> "",
                             status |-> 429, body |-> "error: Too many requests",
                             val |-> NoVal]
            /\ IF r.raised
               THEN UNCHANGED <<windowStart, granted, cappedAt, admitted>>
               ELSE Observe(ip, r.ret) /\ Admit(ip, r.ret)
            /\ UNCHANGED <<limit, now, configured, base>>
            /\ UNCHANGED thrvars

\* GET /rate_limit
RateLimitGet ==
    /\ resp' = [route |-> "/rate_limit", method |-> "GET", ip |-> "", status |-> 200,
                body |-> "limit", val |-> limit]
    /\ UNCHANGED <<limit, counts, now, windowStart, granted, cappedAt, configured>>
    /\ UNCHANGED <<admitted, base>>
    /\ UNCHANGED thrvars

\* a POST /rate_limit that answers without storing the limit
RateLimitPostNotStored(l) ==
    /\ resp' = [route |-> "/rate_limit", method |-> "POST", ip |-> "", status |-> 200,
                body |-> "message: Rate limit successfully updated!", val |-> NoVal]
    /\ configured' = [set |-> TRUE, val |-> l]
    /\ UNCHANGED <<limit, counts, now, windowStart, granted, cappedAt, admitted, base>>
    /\ UNCHANGED thrvars

\* a POST /rate_limit that also starts every client afresh
RateLimitPostClearsCounts(l) ==
    /\ limit' = l
    /\ counts' = [k \in {} |-> 0]
    /\ resp' = [route |-> "/rate_limit", method |-> "POST", ip |-> "", status |-> 200,
                body |-> "message: Rate limit successfully updated!", val |-> NoVal]
    /\ configured' = [set |-> TRUE, val |-> l]
    /\ granted' = IF l = limit THEN granted ELSE [k \in IPs |-> 0]
    /\ cappedAt' = IF l = limit THEN cappedAt ELSE [k \in {} |-> 0]
    /\ base' = IF l = limit THEN base ELSE [k \in IPs |-> 0]
    /\ UNCHANGED <<now, windowStart, admitted>>
    /\ UNCHANGED thrvars

\* POST /rate_limit with body {"limit": l}
RateLimitPost(l) ==
    /\ limit' = l
    /\ resp' = [route |-> "/rate_limit", method |-> "POST", ip |-> "", status |-> 200,
                body |-> "message: Rate limit successfully updated!", val |-> NoVal]
    /\ configured' = [set |-> TRUE, val |-> l]
    /\ granted' = IF l = limit THEN granted ELSE [k \in IPs |-> 0]
    /\ cappedAt' = IF l = limit THEN cappedAt ELSE [k \in {} |-> 0]
    /\ base' = IF l = limit THEN base ELSE [k \in IPs |-> CountOf(k)]
    /\ UNCHANGED <<counts, now, windowStart, admitted>>
    /\ UNCHANGED thrvars

\* POST /rate_limit with a JSON body that has no "limit" member: line 37 raises KeyError
RateLimitPostNoLimit ==
    /\ resp' = [route |-> "/rate_limit", method |-> "POST", ip |-> "", status |-> 500,
                body |-> "KeyError", val |-> NoVal]
    /\ UNCHANGED <<limit, counts, now, windowStart, granted, cappedAt, configured>>
    /\ UNCHANGED <<admitted, base>>
    /\ UNCHANGED thrvars

\* GET /info with the request headers hdrs: the lookup of a header that is
\* missing (lines 47-50) raises KeyError and the request is answered 500
Info(hdrs) ==
    /\ resp' = IF HeaderNames \subseteq hdrs
               THEN [route |-> "/info", method |-> "GET", ip |-> "", status |-> 200,
                     body |-> "headers", val |-> NoVal]
               ELSE [route |-> "/info", method |-> "GET", ip |-> "", status |-> 500,
                     body |-> "KeyError", val |-> NoVal]
    /\ UNCHANGED <<limit, counts, now, windowStart, granted, cappedAt, configured>>
    /\ UNCHANGED <<admitted, base>>
    /\ UNCHANGED thrvars

\* GET /flask-health-check
FlaskHealthCheck ==
    /\ resp' = [route |-> "/flask-health-check", method |-> "GET", ip |-> "",
                status |-> 200, body |-> "success", val |-> NoVal]
    /\ UNCHANGED <<limit, counts, now, windowStart, granted, cappedAt, configured>>
    /\ UNCHANGED <<admitted, base>>
    /\ UNCHANGED thrvars

\* time passes between requests
Tick ==
    /\ now < MaxTime
    /\ now' = now + 1
    /\ UNCHANGED <<limit, counts, resp, windowStart, granted, cappedAt, configured>>
    /\ UNCHANGED <<admitted, base>>
    /\ UNCHANGED thrvars

\* the retention period after which an idle entry is due for removal, and the
\* time by which an entry first checked at 0 has been idle for longer than that
Retention == Window
Horizon == Window + Retention

\* time passes between requests, up to the horizon
Advance ==
    /\ now < Horizon
    /\ now' = now + 1
    /\ UNCHANGED <<limit, counts, resp, windowStart, granted, cappedAt, configured>>
    /\ UNCHANGED <<admitted, base>>
    /\ UNCHANGED thrvars

\* ---------------------------------------------------------------- threads
\* One request to "/" per thread; the steps are the reads and writes of the
\* shared limiter that index() and RateLimiter.allow() make, in program order.

\* a request from ip is taken up by thread t: index() reads request.remote_addr
\* (line 25) and calls allow, whose line 10 tests: if ip_address not in self.counts
T_L10(t, ip) ==
    /\ pc[t] = "idle"
    /\ tip' = [tip EXCEPT ![t] = ip]
    /\ pc' = [pc EXCEPT ![t] = IF ip \notin DOMAIN counts THEN "l11" ELSE "l13"]
    /\ UNCHANGED <<seqvars, tlimit, tmp>>

\* line 11: self.counts[ip_address] = 0
T_L11(t) ==
    /\ pc[t] = "l11"
    /\ counts' = Put(counts, tip[t], 0)
    /\ pc' = [pc EXCEPT ![t] = "l13"]
    /\ UNCHANGED <<limit, resp, now, windowStart, granted, cappedAt, configured>>
    /\ UNCHANGED <<admitted, base, tip, tlimit, tmp>>

\* line 13, left operand: self.counts[ip_address] is loaded (BINARY_SUBSCR);
\* the thread can be suspended before it loads the right operand
T_L13Count(t) ==
    /\ pc[t] = "l13"
    /\ tmp' = [tmp EXCEPT ![t] = counts[tip[t]]]
    /\ pc' = [pc EXCEPT ![t] = "l13b"]
    /\ UNCHANGED <<seqvars, tip, tlimit>>

\* a comparison on line 13 that also holds when the count equals the limit
T_L13LimitOffByOne(t) ==
    /\ pc[t] = "l13b"
    /\ IF ~Comparable(limit)
       THEN /\ pc' = [pc EXCEPT ![t] = "done"]
            /\ resp' = IndexError(tip[t])
            /\ tmp' = [tmp EXCEPT ![t] = 0]
            /\ UNCHANGED <<tlimit, windowStart, granted, cappedAt>>
       ELSE IF LessEq(tmp[t], limit)
       THEN /\ pc' = [pc EXCEPT ![t] = "l14"]
            /\ tlimit' = [tlimit EXCEPT ![t] = limit]
            /\ UNCHANGED <<resp, tmp, windowStart, granted, cappedAt>>
       ELSE /\ pc' = [pc EXCEPT ![t] = "done"]
            /\ resp' = IndexResponse(tip[t], FALSE)
            /\ Observe(tip[t], FALSE)
            /\ tmp' = [tmp EXCEPT ![t] = 0]
            /\ UNCHANGED tlimit
    /\ UNCHANGED <<limit, counts, now, configured, admitted, base, tip>>

\* line 13, right operand and comparison: self.limit is loaded and compared
\* with the count loaded before.  When the comparison raises TypeError the
\* request is answered 500; when the test fails allow returns False (line 17)
\* and index answers 429 (line 28); when it holds, tlimit and tmp keep the
\* limit and the count it held for until line 14 loads the count again.
T_L13Limit(t) ==
    /\ pc[t] = "l13b"
    /\ IF ~Comparable(limit)
       THEN /\ pc' = [pc EXCEPT ![t] = "done"]
            /\ resp' = IndexError(tip[t])
            /\ tmp' = [tmp EXCEPT ![t] = 0]
            /\ UNCHANGED <<tlimit, windowStart, granted, cappedAt>>
       ELSE IF Less(tmp[t], limit)
       THEN /\ pc' = [pc EXCEPT ![t] = "l14"]
            /\ tlimit' = [tlimit EXCEPT ![t] = limit]
            /\ UNCHANGED <<resp, tmp, windowStart, granted, cappedAt>>
       ELSE /\ pc' = [pc EXCEPT ![t] = "done"]
            /\ resp' = IndexResponse(tip[t], FALSE)
            /\ Observe(tip[t], FALSE)
            /\ tmp' = [tmp EXCEPT ![t] = 0]
            /\ UNCHANGED tlimit
    /\ UNCHANGED <<limit, counts, now, configured, admitted, base, tip>>

\* line 14, the read of self.counts[ip_address] += 1
T_L14Read(t) ==
    /\ pc[t] = "l14"
    /\ tmp' = [tmp EXCEPT ![t] = counts[tip[t]]]
    /\ pc' = [pc EXCEPT ![t] = "l14w"]
    /\ UNCHANGED <<seqvars, tip, tlimit>>

\* an allow that compares with the limit a second time before it writes, and
\* turns the request away when a limit stored meanwhile no longer admits it
T_L14WriteRecheck(t) ==
    /\ pc[t] = "l14w"
    /\ pc' = [pc EXCEPT ![t] = "done"]
    /\ IF Comparable(limit) /\ Less(tmp[t], limit)
       THEN /\ counts' = Put(counts, tip[t], tmp[t] + 1)
            /\ resp' = IndexResponse(tip[t], TRUE)
            /\ IF tlimit[t] = limit
               THEN Observe(tip[t], TRUE)
               ELSE UNCHANGED <<windowStart, granted, cappedAt>>
            /\ Admit(tip[t], TRUE)
       ELSE /\ resp' = IndexResponse(tip[t], FALSE)
            /\ Observe(tip[t], FALSE)
            /\ UNCHANGED <<counts, admitted>>
    /\ tmp' = [tmp EXCEPT ![t] = 0]
    /\ tlimit' = [tlimit EXCEPT ![t] = NoVal]
    /\ UNCHANGED <<limit, now, configured, base, tip>>

\* line 14, the write of self.counts[ip_address] += 1; then allow returns True
\* (line 15) and index answers 200 (line 30); the values the call had loaded
\* go with the frame of allow.  The answer counts as granted under the present
\* limit when that is the limit the thread compared with.
T_L14Write(t) ==
    /\ pc[t] = "l14w"
    /\ counts' = Put(counts, tip[t], tmp[t] + 1)
    /\ pc' = [pc EXCEPT ![t] = "done"]
    /\ resp' = IndexResponse(tip[t], TRUE)
    /\ IF tlimit[t] = limit
       THEN Observe(tip[t], TRUE)
       ELSE UNCHANGED <<windowStart, granted, cappedAt>>
    /\ Admit(tip[t], TRUE)
    /\ tmp' = [tmp EXCEPT ![t] = 0]
    /\ tlimit' = [tlimit EXCEPT ![t] = NoVal]
    /\ UNCHANGED <<limit, now, configured, base, tip>>

\* ---------------------------------------------------------------- specification
Init ==
    /\ limit = JInt(DefaultLimit)
    /\ counts = [k \in {} |-> 0]
    /\ resp = NoResp
    /\ now = 0
    /\ windowStart = [k \in {} |-> 0]
    /\ granted = [k \in IPs |-> 0]
    /\ cappedAt = [k \in {} |-> 0]
    /\ configured = Unset
    /\ admitted = [k \in IPs |-> 0]
    /\ base = [k \in IPs |-> 0]
    /\ pc = [t \in Threads |-> "idle"]
    /\ tip = [t \in Threads |-> ""]
    /\ tlimit = [t \in Threads |-> NoVal]
    /\ tmp = [t \in Threads |-> 0]

Next ==
    \/ \E ip \in IPs : Index(ip)
    \/ RateLimitGet
    \/ \E l \in LimitInputs : RateLimitPost(l)
    \/ RateLimitPostNoLimit
    \/ \E hdrs \in HeaderInputs : Info(hdrs)
    \/ FlaskHealthCheck

Spec == Init /\ [][Next]_vars

\* checks and limit updates while the wall clock advances
TimedNext ==
    \/ \E ip \in IPs : Index(ip)
    \/ \E l \in LimitInputs : RateLimitPost(l)
    \/ Tick

TimedSpec == Init /\ [][TimedNext]_vars

\* checks, one at a time, over a time longer than the retention period; the
\* clock keeps advancing
IdleNext ==
    \/ \E ip \in IPs : Index(ip)
    \/ Advance

IdleSpec == Init /\ [][IdleNext]_vars /\ WF_vars(Advance)

ThreadNext ==
    \/ \E t \in Threads, ip \in IPs : T_L10(t, ip)
    \/ \E t \in Threads : T_L11(t)
    \/ \E t \in Threads : T_L13Count(t)
    \/ \E t \in Threads : T_L13Limit(t)
    \/ \E t \in Threads : T_L14Read(t)
    \/ \E t \in Threads : T_L14Write(t)
    \/ \E l \in LimitInputs : RateLimitPost(l)

ThreadSpec == Init /\ [][ThreadNext]_vars

TypeOK ==
    /\ limit \in LimitInputs \cup {JInt(DefaultLimit)}
    /\ DOMAIN counts \subseteq IPs
    /\ \A k \in DOMAIN counts : counts[k] \in Nat
    /\ now \in 0..(IF Horizon > MaxTime THEN Horizon ELSE MaxTime)
    /\ \A k \in IPs : granted[k] \in Nat
    /\ DOMAIN windowStart \subseteq IPs
    /\ DOMAIN cappedAt \subseteq IPs
    /\ \A k \in IPs : admitted[k] \in Nat /\ base[k] \in Nat

\* ---------------------------------------------------------------- claims
A == "10.0.0.1"
B == "10.0.0.2"
Hello == "message: Hello, world!"
TooMany == "error: Too many requests"

\* a maxRequests as the spec's LimitPolicy has it: an integer above 0
IsInt(v) == v.kind = "int"
IsPolicy(v) == v.kind = "int" /\ v.num > 0
\* for a number v, the least count that is not below v (v itself when v is an integer)
Ceil(v) == IF v.kind = "int" THEN v.num ELSE v.num + 1
\* the comparison of line 13 holds for count c and the stored value v
Below(c, v) == Comparable(v) /\ Less(c, v)
\* v is a number and count c has reached it
Reached(c, v) == Comparable(v) /\ ~Less(c, v)

\* C1: with requests handled one after another and the limit unchanged, the
\* checks of one key answered Allowed inside one window (opened by the key's
\* first check in it) number at most the limit (a positive number; rounded up
\* when it is not an integer); under a limit that is no number there are none.
C1Theorem ==
    \A k \in IPs :
        /\ IsPolicy(limit) => granted[k] <= limit.num
        /\ (Comparable(limit) /\ Ceil(limit) > 0) => granted[k] <= Ceil(limit)
        /\ ~Comparable(limit) => granted[k] = 0

\* a key has been granted the whole limit in its window and was then turned away
C1Witness ==
    \E k \in DOMAIN cappedAt :
        /\ IsPolicy(limit)
        /\ granted[k] = limit.num
        /\ resp = IndexResponse(k, FALSE)

\* C2 (as claimed): with checks of one key running concurrently, the answers
\* Allowed under one limit never outnumber it, and no increment is lost: once
\* no check of the key is in flight its count is the number of Allowed answers.
C2Original ==
    \A k \in IPs :
        /\ IsPolicy(limit) => granted[k] <= limit.num
        /\ (~configured.set /\ \A t \in Threads : tip[t] = k => pc[t] = "done")
              => CountOf(k) = granted[k]

\* C3 (as claimed): a key that was Denied and is checked again once its window
\* is over (now - windowStart >= Window) is answered Allowed.
C3Original ==
    [][\A k \in DOMAIN cappedAt :
          (/\ IsPolicy(limit)
           /\ k \in DOMAIN windowStart
           /\ now - windowStart[k] >= Window
           /\ Index(k))
          => resp'.status = 200]_vars

\* C4 (as claimed): a POST /rate_limit with a limit of 0 or less is refused
\* with a 400-class status and leaves the limit as it was.
C4Original ==
    [][\A l \in LimitInputs :
          (IsInt(l) /\ l.num <= 0 /\ RateLimitPost(l))
          => (resp'.status \in 400..499 /\ limit' = limit)]_vars

\* C5: a check of key a leaves the entry of every other key as it was (absent
\* or with the same count), and it is Allowed exactly when a's own count is
\* below the limit and Denied exactly when a's own count has reached it.
C5Theorem ==
    [][\A a \in IPs :
          Index(a) =>
            /\ \A b \in IPs \ {a} :
                  /\ (b \in DOMAIN counts') = (b \in DOMAIN counts)
                  /\ b \in DOMAIN counts => counts'[b] = counts[b]
            /\ (resp'.status = 200) = Below(CountOf(a), limit)
            /\ (resp'.status = 429) = Reached(CountOf(a), limit)]_vars

\* key A was just checked while key B stands at another count
C5Witness ==
    /\ DOMAIN counts = IPs
    /\ counts[A] = 2
    /\ counts[B] = 1
    /\ resp = IndexResponse(A, TRUE)

\* C6: once a POST /rate_limit has stored L, the limit is L until the next
\* POST, GET /rate_limit answers L and changes neither the limit nor a count,
\* and every later check is decided against L: Allowed exactly when the key's
\* count is below L, Denied exactly when it has reached L.
C6Theorem ==
    [][/\ configured'.set => limit' = configured'.val
       /\ RateLimitGet =>
            /\ configured.set => resp'.val = configured.val
            /\ limit' = limit
            /\ counts' = counts
       /\ \A k \in IPs :
            (configured.set /\ Index(k))
            => /\ (resp'.status = 200) = Below(CountOf(k), configured.val)
               /\ (resp'.status = 429) = Reached(CountOf(k), configured.val)]_vars

\* a limit other than the default was stored and then read back
C6Witness ==
    /\ configured.set
    /\ configured.val # JInt(DefaultLimit)
    /\ resp.route = "/rate_limit"
    /\ resp.method = "GET"
    /\ resp.val = configured.val

\* C7: a request to "/" is answered 429 with the body Too many requests
\* exactly when the key's count has reached the limit (allow returns False),
\* and 200 with the normal body exactly when the count is below the limit
\* (allow returns True); a request answered 429 does not get the normal body.
C7Theorem ==
    [][\A k \in IPs :
          Index(k) =>
            /\ resp'.route = "/" /\ resp'.ip = k
            /\ (resp'.status = 429 /\ resp'.body = TooMany) = Reached(CountOf(k), limit)
            /\ (resp'.status = 200 /\ resp'.body = Hello) = Below(CountOf(k), limit)
            /\ resp'.status = 429 => resp'.body # Hello
            /\ resp'.body = TooMany => resp'.status = 429]_vars

\* a request of a key whose count had reached the limit was answered 429
C7Witness ==
    \E k \in DOMAIN counts :
        /\ IsPolicy(limit)
        /\ counts[k] >= limit.num
        /\ resp.route = "/" /\ resp.ip = k
        /\ resp.status = 429 /\ resp.body = TooMany

\* C8 (as claimed): a check made before any POST /rate_limit fails: its
\* answer is neither Allowed nor Denied and the counts stay as they were.
C8Original ==
    [][\A k \in IPs :
          (~configured.set /\ Index(k))
          => (resp'.status \notin {200, 429} /\ counts' = counts)]_vars

\* C8 (amended): before any POST /rate_limit a check is decided against the
\* constructor's limit of 10; a check is answered Allowed or Denied whenever
\* the stored limit is a number, and fails (answer 500, no count raised)
\* exactly when a value that is no number was stored.
C8Theorem ==
    [][\A k \in IPs :
          Index(k) =>
            /\ (resp'.status \in {200, 429}) = Comparable(limit)
            /\ ~Comparable(limit) =>
                  (resp' = IndexError(k) /\ counts'[k] = CountOf(k) /\ configured.set)
            /\ ~configured.set => (resp'.status = 200) = (CountOf(k) < 10)
            /\ ~configured.set /\ CountOf(k) < 10 => counts'[k] = CountOf(k) + 1]_vars

\* a check was answered Allowed although no limit was ever posted
C8Witness ==
    \E k \in DOMAIN counts :
        /\ ~configured.set
        /\ counts[k] > 0
        /\ resp = IndexResponse(k, TRUE)

\* C9 (as claimed): every count is at most the limit in force.
C9Original ==
    \A k \in DOMAIN counts : IsPolicy(limit) => counts[k] <= limit.num

\* C9 (amended): whatever the interleaving of the steps of checks and of limit
\* updates, a limit update changes no count; a check goes on to line 14 only
\* when line 13 found the count it had loaded below the limit stored at that
\* moment; the count line 14 loads is still below that limit unless it is no
\* longer the count line 13 loaded (another check stored it in between, the
\* race of C2); a count rises only by the write of line 14, to one more than
\* the count line 14 loaded, which is then at most the limit the check
\* compared with (rounded up when that limit is not an integer), and at most
\* the limit in force when no other limit was stored since the comparison.
C9Theorem ==
    [][/\ RateLimitPost(limit') => counts' = counts
       /\ \A t \in Threads :
             /\ (pc[t] # "l14" /\ pc'[t] = "l14") =>
                   /\ pc[t] = "l13b"
                   /\ Below(tmp[t], limit)
                   /\ tlimit'[t] = limit
                   /\ tmp'[t] = tmp[t]
                   /\ limit' = limit
             /\ pc[t] = "l14" =>
                   /\ Below(tmp[t], tlimit[t])
                   /\ pc'[t] \in {"l14", "l14w"}
                   /\ pc'[t] = "l14" => (tmp'[t] = tmp[t] /\ tlimit'[t] = tlimit[t])
                   /\ pc'[t] = "l14w" =>
                         /\ tmp'[t] = counts[tip[t]]
                         /\ tlimit'[t] = tlimit[t]
                         /\ tmp'[t] = tmp[t] => Below(tmp'[t], tlimit'[t])
             /\ (pc[t] = "l14w" /\ pc'[t] = "done") =>
                   /\ Comparable(tlimit[t])
                   /\ counts' = Put(counts, tip[t], tmp[t] + 1)
                   /\ Below(tmp[t], tlimit[t]) =>
                         /\ counts'[tip[t]] <= Ceil(tlimit[t])
                         /\ tlimit[t] = limit' => counts'[tip[t]] <= Ceil(limit')
                         /\ (tlimit[t] = limit' /\ IsInt(limit')) =>
                               counts'[tip[t]] <= limit'.num
       /\ \A k \in DOMAIN counts' :
             counts'[k] > CountOf(k) =>
                 \E t \in Threads :
                     pc[t] = "l14w" /\ pc'[t] = "done" /\ tip[t] = k]_vars

\* two checks of one key were both answered Allowed and then a limit below
\* the count they left was stored: the count exceeds the limit in force
C9Witness ==
    /\ \A t \in Threads : pc[t] = "done" /\ tip[t] = A
    /\ IsPolicy(limit)
    /\ counts[A] > limit.num
    /\ counts[A] = admitted[A]
    /\ base[A] = counts[A]
    /\ resp.route = "/rate_limit" /\ resp.method = "POST" /\ resp.status = 200

\* C10: no count is ever removed or lowered, and while the limit stays the
\* same a key that was answered False is answered False by every later check,
\* whatever the clock says.
C10Theorem ==
    [][/\ \A k \in DOMAIN counts :
            k \in DOMAIN counts' /\ counts'[k] >= counts[k]
       /\ \A k \in DOMAIN cappedAt :
            Index(k) => resp' = IndexResponse(k, FALSE)]_vars

\* a key turned away earlier is turned away again by a check made after its
\* window was over
C10Witness ==
    \E k \in DOMAIN cappedAt :
        /\ cappedAt[k] < now
        /\ windowStart[k] = now
        /\ now >= Window
        /\ resp = IndexResponse(k, FALSE)
\* C11: a check answered Allowed raises the key's count by exactly one, a
\* check answered Denied leaves it as it was, and with requests handled one
\* after another every key's count is the number of Allowed answers it got.
C11Theorem ==
    [][/\ \A k \in IPs :
            Index(k) =>
              /\ resp'.status = 200 => counts'[k] = CountOf(k) + 1
              /\ resp'.status # 200 => counts'[k] = CountOf(k)
       /\ \A k \in DOMAIN counts' : counts'[k] = admitted'[k]]_vars

\* a key was Allowed twice and then Denied: its count still says two
C11Witness ==
    /\ A \in DOMAIN counts
    /\ counts[A] = 2
    /\ admitted[A] = 2
    /\ resp = IndexResponse(A, FALSE)

\* C12: a POST /rate_limit changes the limit and nothing of any client (count
\* or window start); a later check of a key whose count is at or above the
\* limit is Denied and leaves the count where it was.
C12Theorem ==
    [][/\ \A l \in LimitInputs :
            RateLimitPost(l) =>
              /\ limit' = l
              /\ counts' = counts
              /\ windowStart' = windowStart
              /\ admitted' = admitted
       /\ \A k \in DOMAIN counts :
            (Reached(counts[k], limit) /\ Index(k)) =>
              /\ resp' = IndexResponse(k, FALSE)
              /\ counts' = counts]_vars

\* a limit at or below the count a key already holds has just been stored
C12Witness ==
    /\ resp.route = "/rate_limit"
    /\ resp.method = "POST"
    /\ resp.status = 200
    /\ configured.set
    /\ IsPolicy(limit)
    /\ \E k \in DOMAIN counts : counts[k] >= limit.num /\ admitted[k] = counts[k]
\* C13: a check running while a limit is stored loads the limit once (line
\* 13) and is decided by that one value; a limit stored afterwards changes
\* neither the value loaded nor the outcome: a check that passed the
\* comparison goes on to write its count and is answered Allowed.
C13Theorem ==
    [][/\ \A t \in Threads :
          /\ T_L13Count(t) => (limit' = limit /\ tlimit' = tlimit)
          /\ T_L13Limit(t) =>
                /\ (pc'[t] = "l14") = Below(tmp[t], limit)
                /\ (pc'[t] = "done") = ~Below(tmp[t], limit)
                /\ pc'[t] = "l14" => tlimit'[t] = limit
                /\ Reached(tmp[t], limit) => resp' = IndexResponse(tip[t], FALSE)
                /\ ~Comparable(limit) => resp' = IndexError(tip[t])
          /\ pc[t] \in {"l14", "l14w"} =>
                /\ pc'[t] \in {"l14", "l14w", "done"}
                /\ pc'[t] # "done" => tlimit'[t] = tlimit[t]
                /\ pc'[t] = "done" =>
                      /\ resp' = IndexResponse(tip[t], TRUE)
                      /\ counts'[tip[t]] = tmp[t] + 1
       /\ RateLimitPost(limit') => (pc' = pc /\ tlimit' = tlimit /\ tmp' = tmp)]_vars

\* the only request made was admitted under the limit it had loaded and
\* answered Allowed after another limit, which would turn it away, was stored
\* (so the answer is not among those granted under the present limit)
C13Witness ==
    \E t \in Threads :
        /\ \A u \in Threads \ {t} : pc[u] = "idle"
        /\ pc[t] = "done"
        /\ resp = IndexResponse(tip[t], TRUE)
        /\ configured.set
        /\ granted[tip[t]] = 0
        /\ IsInt(limit)
        /\ counts[tip[t]] > limit.num
\* the entry of k exists and k was last checked more than Retention ago: a
\* check at or after windowStart + Window would have moved windowStart
Idle(k) ==
    /\ k \in DOMAIN counts
    /\ k \in DOMAIN windowStart
    /\ now - windowStart[k] >= Window + Retention

\* C14 (as claimed): an entry that has been idle for longer than the
\* retention period is eventually removed from the dict, and no entry is
\* removed while its window is still running.
C14Original ==
    /\ \A k \in IPs : Idle(k) ~> (k \notin DOMAIN counts)
    /\ [][\A k \in DOMAIN counts :
             (k \in DOMAIN windowStart /\ now - windowStart[k] < Window)
             => k \in DOMAIN counts']_vars
\* C15: when a limit L is stored while a key stands Denied at count c < L,
\* the key keeps count c; its next check is answered Allowed, and by the time
\* it is Denied again it has been answered Allowed exactly L - c times under L
\* (L rounded up when it is not an integer).
C15Theorem ==
    [][/\ \A k \in DOMAIN cappedAt : \A l \in LimitInputs :
            (Below(counts[k], l) /\ RateLimitPost(l))
            => /\ counts'[k] = counts[k]
               /\ base'[k] = counts[k]
               /\ granted'[k] = 0
               /\ k \notin DOMAIN cappedAt'
       /\ \A k \in IPs :
            (/\ configured.set
             /\ Below(base[k], limit)
             /\ granted[k] = 0
             /\ Index(k))
            => (resp' = IndexResponse(k, TRUE) /\ granted'[k] = 1)
       /\ \A k \in DOMAIN cappedAt' :
            (configured'.set /\ Below(base'[k], limit'))
            => /\ granted'[k] = Ceil(limit') - base'[k]
               /\ IsInt(limit') => granted'[k] = limit'.num - base'[k]]_vars

\* a key that stood at count 1 when a higher limit was stored was Allowed up
\* to that limit and is now Denied again
C15Witness ==
    \E k \in DOMAIN cappedAt :
        /\ configured.set
        /\ base[k] = 1
        /\ IsInt(limit)
        /\ limit.num > 1
        /\ granted[k] = limit.num - 1
        /\ counts[k] = limit.num
        /\ resp = IndexResponse(k, FALSE)
\* a request to a route other than "/"
OtherRoute ==
    \/ RateLimitGet
    \/ \E l \in LimitInputs : RateLimitPost(l)
    \/ RateLimitPostNoLimit
    \/ \E hdrs \in HeaderInputs : Info(hdrs)
    \/ FlaskHealthCheck

\* C16: a request to /rate_limit, /info or /flask-health-check is never
\* answered 429 and leaves every count and every tally of Allowed answers as
\* it was; reading the limit answers 200 with the limit and storing one
\* answers 200 and stores it, also while every client stands Denied.
C16Theorem ==
    [][/\ OtherRoute =>
            /\ counts' = counts
            /\ admitted' = admitted
            /\ resp'.status # 429
            /\ resp'.route # "/"
       /\ RateLimitGet => (resp'.status = 200 /\ resp'.val = limit)
       /\ \A l \in LimitInputs :
            RateLimitPost(l) => (resp'.status = 200 /\ limit' = l)
       /\ ENABLED RateLimitGet
       /\ \A l \in LimitInputs : ENABLED RateLimitPost(l)]_vars

\* every client stands Denied and the limit was read all the same
C16Witness ==
    /\ DOMAIN cappedAt = IPs
    /\ \A k \in IPs : k \in DOMAIN counts /\ Reached(counts[k], limit)
    /\ resp.route = "/rate_limit"
    /\ resp.method = "GET"
    /\ resp.status = 200
    /\ resp.val = limit
====
